---- MODULE Spec2Model ----
(***************************************************************************)
(* Model of the weather prediction backend (src/backend/main.py,           *)
(* src/backend/database.py): the city-aware model registry                 *)
(* (ModelManager), the /predict pipeline and the prediction store.         *)
(*                                                                         *)
(* Python strings are sequences of one-character strings, so that lower(), *)
(* strip(), replace() and the `in` substring test are computed and not     *)
(* assumed.  An absent city (None) is the one-element sequence None, whose *)
(* element is no character.                                                *)
(***************************************************************************)
EXTENDS Integers, Sequences, FiniteSets, TLC

VARIABLES
    files,      \* artifact files on disk: file id -> status / behaviour
    listing,    \* order in which os.listdir yields the cities of models/
    models,     \* model_manager.models: ordered dict, a sequence of entries
    phase,      \* "boot" before ModelManager(), then "serving" or "failed"
    store,      \* rows of the predictions table, in insertion order
    request,    \* the request (or call) handled last
    response,   \* its response
    log,        \* the lines it printed
    trace,      \* the steps it performed, in order
    inflight    \* per client, the request a worker thread is handling for it

vars == <<files, listing, models, phase, store, request, response, log, trace,
          inflight>>

(***************************************************************************)
(* Strings                                                                 *)
(***************************************************************************)
None == <<"None">>

UpperChars == <<"A","B","C","D","E","F","G","H","I","J","K","L","M",
                "N","O","P","Q","R","S","T","U","V","W","X","Y","Z">>
LowerChars == <<"a","b","c","d","e","f","g","h","i","j","k","l","m",
                "n","o","p","q","r","s","t","u","v","w","x","y","z">>

Whitespace == {" ", "\t", "\n"}

\* str.lower(), one character
LowerChar(c) ==
    IF \E i \in 1..26 : UpperChars[i] = c
    THEN LowerChars[CHOOSE i \in 1..26 : UpperChars[i] = c]
    ELSE c

\* str.lower()
Lower(s) == [i \in 1..Len(s) |-> LowerChar(s[i])]

RECURSIVE LStrip(_)
LStrip(s) == IF s # <<>> /\ Head(s) \in Whitespace THEN LStrip(Tail(s)) ELSE s

RECURSIVE RStrip(_)
RStrip(s) ==
    IF s # <<>> /\ s[Len(s)] \in Whitespace
    THEN RStrip(SubSeq(s, 1, Len(s) - 1))
    ELSE s

\* str.strip()
Strip(s) == RStrip(LStrip(s))

\* str.replace(' ', '_')
ReplaceSpaces(s) == [i \in 1..Len(s) |-> IF s[i] = " " THEN "_" ELSE s[i]]

\* Python's `a in b` on strings
IsSubstring(a, b) ==
    \E i \in 0..(Len(b) - Len(a)) : SubSeq(b, i + 1, i + Len(a)) = a

\* Python truthiness of an Optional[str]: `not city`
Falsy(city) == city = None \/ city = <<>>

default_city == <<"d","e","f","a","u","l","t">>

bangalore == <<"b","a","n","g","a","l","o","r","e">>
bengaluru == <<"b","e","n","g","a","l","u","r","u">>
bombay    == <<"b","o","m","b","a","y">>
mumbai    == <<"m","u","m","b","a","i">>
madras    == <<"m","a","d","r","a","s">>
chennai   == <<"c","h","e","n","n","a","i">>

\* city_mapping.get(normalized, normalized)
city_mapping(normalized) ==
    IF normalized = bangalore THEN bengaluru
    ELSE IF normalized = bombay THEN mumbai
    ELSE IF normalized = madras THEN chennai
    ELSE normalized

\* a normalization without the test for an absent or empty city
_normalize_city_name_NoDefault(city) ==
    city_mapping(ReplaceSpaces(Strip(Lower(city))))

\* a normalization that looks the city up in the alias table first
_normalize_city_name_AliasFirst(city) ==
    IF Falsy(city)
    THEN default_city
    ELSE ReplaceSpaces(Strip(Lower(city_mapping(city))))

\* ModelManager._normalize_city_name: city.lower().strip().replace(' ', '_'),
\* then the alias table; every step of the chain is computed once and bound
\* (each set below has one element)
_normalize_city_name(city) ==
    IF Falsy(city)
    THEN default_city
    ELSE CHOOSE key \in
            {city_mapping(normalized) :
                normalized \in {ReplaceSpaces(stripped) :
                    stripped \in {Strip(lowered) : lowered \in {Lower(city)}}}} : TRUE


(***************************************************************************)
(* Artifact files and the registry                                         *)
(***************************************************************************)
delhi     == <<"d","e","l","h","i">>
new_delhi == <<"n","e","w","_","d","e","l","h","i">>

\* the keys all(key in models for key in [...]) asks for, in that order
Components == <<"temperature", "rain", "scaler">>
ComponentSet == {Components[i] : i \in 1..Len(Components)}

\* cities whose artifacts may lie in models/
ModelCities == {delhi, new_delhi}

\* '<comp>.pkl' in the working directory, 'models/<city>_<comp>.pkl'
RootFile(comp) == <<"root", <<>>, comp>>
CityFile(city, comp) == <<"models", city, comp>>
AllFiles ==
    {RootFile(c) : c \in ComponentSet}
        \cup {CityFile(city, c) : city \in ModelCities, c \in ComponentSet}

\* "absent": no such file; "corrupt": pickle.load raises; otherwise the file
\* loads, and the object does what its status says when it is applied
LoadStatus == {"absent", "corrupt", "ok"}
Loadable(status) == status \notin {"absent", "corrupt"}

\* the cities os.listdir(models_dir) shows at least one artifact of
ListedCities(f) ==
    {city \in ModelCities : \E c \in ComponentSet : f[CityFile(city, c)] # "absent"}

Perms(S) ==
    {p \in [1..Cardinality(S) -> S] : \A i, j \in 1..Cardinality(S) : p[i] = p[j] => i = j}

\* a loaded object: the file it came from and how it behaves
Artifact(f, file) == [file |-> file, kind |-> f[file]]

\* all(key in models for key in ['temperature', 'rain', 'scaler'])
Complete(bundle) == \A i \in 1..Len(Components) : Components[i] \in DOMAIN bundle

\* dict: `key in d`, d[key], d[key] = value (a new key goes last, an old one
\* keeps its place)
DictHas(d, key) == \E i \in 1..Len(d) : d[i].key = key
DictGet(d, key) == d[CHOOSE i \in 1..Len(d) : d[i].key = key].bundle
DictSet(d, key, bundle) ==
    IF DictHas(d, key)
    THEN [i \in 1..Len(d) |-> IF d[i].key = key THEN [key |-> key, bundle |-> bundle] ELSE d[i]]
    ELSE Append(d, [key |-> key, bundle |-> bundle])

\* _load_models, lines 53-72: the default bundle is registered when
\* temperature_model.pkl exists and all three files load
LoadDefault(f) ==
    IF f[RootFile("temperature")] = "absent"
    THEN [models |-> <<>>, default_loaded |-> FALSE, log |-> <<>>]
    ELSE IF \A c \in ComponentSet : Loadable(f[RootFile(c)])
    THEN [models |-> <<[key |-> default_city,
                        bundle |-> [c \in ComponentSet |-> Artifact(f, RootFile(c))]]>>,
          default_loaded |-> TRUE,
          log |-> << <<"default_loaded", None>> >>]
    ELSE [models |-> <<>>, default_loaded |-> FALSE,
          log |-> << <<"could_not_load_default", None>> >>]

\* _load_models, lines 79-108: city_models[city], the components that loaded
CityModels(f, city) ==
    [c \in {c \in ComponentSet : Loadable(f[CityFile(city, c)])}
        |-> Artifact(f, CityFile(city, c))]

\* a registration test that accepts a city as soon as one artifact loaded
RegisterCity_AnyComponent(bundle) == DOMAIN bundle # {}

\* _load_models, line 112: the test a city's bundle passes to be registered
RegisterCity(bundle) == Complete(bundle)

\* _load_models, lines 110-114: add the complete city bundles, in dict order
RECURSIVE AddCities(_, _, _)
AddCities(f, order, acc) ==
    IF order = <<>>
    THEN acc
    ELSE LET city == Head(order)
             bundle == CityModels(f, city)
         IN AddCities(f, Tail(order),
                      IF RegisterCity(bundle) THEN DictSet(acc, city, bundle) ELSE acc)

\* a startup that never raises
LoadRaises_Never(registry, default_loaded) == FALSE

\* a startup test that insists on the default bundle
LoadRaises_WithoutDefault(registry, default_loaded) == ~default_loaded

\* _load_models, lines 116-120: the test that makes startup raise
LoadRaises(registry, default_loaded) == registry = <<>> /\ ~default_loaded

\* ModelManager._load_models
_load_models(f, order) ==
    LET d == LoadDefault(f)
        registry == AddCities(f, order, d.models)
    IN [raised |-> LoadRaises(registry, d.default_loaded),
        models |-> registry,
        log |-> d.log]

(***************************************************************************)
(* Resolution                                                              *)
(***************************************************************************)
\* a scan that keeps the last hit instead of returning at the first
Min_LastHit(S) == CHOOSE x \in S : \A y \in S : y <= x

\* the position at which a `for ... in self.models.items()` loop returns:
\* the first one that qualifies
Min(S) == CHOOSE x \in S : \A y \in S : x <= y

\* get_models, lines 141-145: the first registered key that contains the
\* requested key or is contained in it, and whose bundle is complete
PartialMatches(registry, normalized_city) ==
    {i \in 1..Len(registry) :
        /\ (IsSubstring(normalized_city, registry[i].key)
               \/ IsSubstring(registry[i].key, normalized_city))
        /\ Complete(registry[i].bundle)}

\* get_models, lines 157-162
CompleteEntries(registry) == {i \in 1..Len(registry) : Complete(registry[i].bundle)}

\* a lookup that takes the entry out of the dict (dict.pop(key))
Returned_Popped(registry, i, step, lines) ==
    [raised |-> FALSE, bundle |-> registry[i].bundle, key |-> registry[i].key,
     step |-> step, log |-> lines,
     models |-> [j \in 1..(Len(registry) - 1) |->
                    IF j < i THEN registry[j] ELSE registry[j + 1]]]

\* get_models, lines 137, 145, 152 and 162: `return self.models[...]` (or the
\* loop variable): the entry's bundle is handed out and self.models, which
\* the method only reads, is what it was
Returned(registry, i, step, lines) ==
    [raised |-> FALSE, bundle |-> registry[i].bundle, key |-> registry[i].key,
     step |-> step, log |-> lines, models |-> registry]

\* get_models, lines 147-164, after the substring scan found nothing
FallBack(registry, city, lines) ==
    LET hasDefault == DictHas(registry, default_city)
        defaultOk == hasDefault /\ Complete(DictGet(registry, default_city))
        lines3 == IF hasDefault /\ ~defaultOk
                  THEN Append(lines, <<"default_incomplete", None>>)
                  ELSE lines
    IN IF defaultOk
       THEN Returned(registry, CHOOSE i \in 1..Len(registry) : registry[i].key = default_city,
                     "default", Append(lines, <<"not_found_using_default", city>>))
       ELSE IF CompleteEntries(registry) # {}
       THEN LET i == Min(CompleteEntries(registry))
            IN Returned(registry, i, "last_resort",
                        Append(lines3, <<"using_models_from", registry[i].key>>))
       ELSE [raised |-> TRUE, bundle |-> <<>>, key |-> None, step |-> "none",
             log |-> lines3, models |-> registry]

\* a resolution that tries the default bundle before the substring scan
get_models_DefaultFirst(registry, requested) ==
    LET city == IF Falsy(requested) THEN default_city ELSE requested
        normalized_city == _normalize_city_name(city)
    IN IF DictHas(registry, normalized_city) /\ Complete(DictGet(registry, normalized_city))
       THEN Returned(registry,
                     CHOOSE i \in 1..Len(registry) : registry[i].key = normalized_city,
                     "exact", <<>>)
       ELSE IF DictHas(registry, default_city)
       THEN FallBack(registry, city, <<>>)
       ELSE IF PartialMatches(registry, normalized_city) # {}
       THEN Returned(registry, Min(PartialMatches(registry, normalized_city)),
                     "partial", <<>>)
       ELSE FallBack(registry, city, <<>>)

\* ModelManager.get_models.  key and step tell which entry was returned and
\* by which rule; the caller receives only the bundle (or the ValueError).
get_models(registry, requested) ==
    LET city == IF Falsy(requested) THEN default_city ELSE requested
        normalized_city == _normalize_city_name(city)
        exact == DictHas(registry, normalized_city)
        lines1 == IF exact /\ ~Complete(DictGet(registry, normalized_city))
                  THEN << <<"incomplete_falling_back", city>> >>
                  ELSE <<>>
    IN IF exact /\ Complete(DictGet(registry, normalized_city))
       THEN Returned(registry,
                     CHOOSE i \in 1..Len(registry) : registry[i].key = normalized_city,
                     "exact", <<>>)
       ELSE IF PartialMatches(registry, normalized_city) # {}
       THEN Returned(registry, Min(PartialMatches(registry, normalized_city)),
                     "partial", lines1)
       ELSE FallBack(registry, city, lines1)


(***************************************************************************)
(* Startup and direct calls of the registry                                *)
(***************************************************************************)
NoRequest == [op |-> "none"]
NoResponse == [status |-> 0]

\* the clients whose requests are handled concurrently, and a client that
\* has no request in flight (no session is open for it)
Clients == {"a", "b"}
Idle == [op |-> "idle", pc |-> "idle", session |-> "closed"]

\* city strings a caller may send
Delhi        == <<"D","e","l","h","i">>
DelhiPadded  == <<" ","D","E","L","H","I"," ">>
NewDelhi     == <<"N","e","w"," ","D","e","l","h","i">>
Del          == <<"d","e","l">>
De           == <<"d","e">>
Ault         == <<"A","u","l","t">>
Pune         == <<"P","u","n","e">>
Blank        == <<" ">>
Empty        == <<>>

ResolveCities == {None, Empty, Blank, Delhi, DelhiPadded, NewDelhi, Del, De, Ault, Pune,
                  default_city}

\* the process before `model_manager = ModelManager()` has run
Boot(f, order) ==
    /\ files = f
    /\ listing = order
    /\ models = <<>>
    /\ phase = "boot"
    /\ store = <<>>
    /\ request = NoRequest
    /\ response = NoResponse
    /\ log = <<>>
    /\ trace = <<>>
    /\ inflight = [c \in Clients |-> Idle]

\* every set of artifact files, every order of the directory listing
InitRegistry ==
    \E f \in [AllFiles -> LoadStatus] :
        \E order \in Perms(ListedCities(f)) : Boot(f, order)

\* model_manager = ModelManager(): __init__ runs _load_models; when it raises
\* the module fails to import and the server never serves
LoadModels ==
    /\ phase = "boot"
    /\ \E r \in {_load_models(files, listing)} :
          /\ phase' = IF r.raised THEN "failed" ELSE "serving"
          /\ models' = r.models
          /\ log' = r.log
    /\ request' = [op |-> "load"]
    /\ response' = NoResponse
    /\ trace' = <<>>
    /\ UNCHANGED <<inflight, files, listing, store>>

\* a call model_manager.get_models(city).  The caller receives the bundle or
\* the ValueError; which entry it was, and by which rule, is kept in trace.
Resolve(city) ==
    /\ phase = "serving"
    /\ \E r \in {get_models(models, city)} :
          /\ response' = [status |-> 0, raised |-> r.raised, bundle |-> r.bundle]
          /\ log' = r.log
          /\ trace' = << <<"get_models", r.key, r.step>> >>
          /\ models' = r.models
    /\ request' = [op |-> "get_models", city |-> city]
    /\ UNCHANGED <<inflight, files, listing, phase, store>>

NextRegistry == LoadModels \/ \E city \in ResolveCities : Resolve(city)

SpecRegistry == InitRegistry /\ [][NextRegistry]_vars


(***************************************************************************)
(* /predict: validation, inference, persistence                            *)
(***************************************************************************)
FEATURE_COLUMNS == <<"humidity", "pressure", "wind_speed", "clouds", "month", "day">>
Fields == {FEATURE_COLUMNS[i] : i \in 1..Len(FEATURE_COLUMNS)}

\* WeatherInput: Field(..., ge=, le=)
Ge == [humidity |-> 0, pressure |-> 900, wind_speed |-> 0, clouds |-> 0,
       month |-> 1, day |-> 1]
Le == [humidity |-> 100, pressure |-> 1100, wind_speed |-> 100, clouds |-> 100,
       month |-> 12, day |-> 31]

\* a validation that checks the lower bounds only
ValidationErrors_LowerBoundsOnly(x) == {f \in Fields : x[f] < Ge[f]}

\* the fields the request validation reports; the handler runs only when
\* there is none
ValidationErrors(x) == {f \in Fields : x[f] < Ge[f] \/ x[f] > Le[f]}

\* exceptions: the class the handler's except clauses look at, and what of
\* str(e) its message test looks for
Exc(cls, mentions) == [cls |-> cls, mentions |-> mentions]

\* what applying a loaded object does: "ok" computes; the others raise, and
\* "noProba" is a classifier that predicts but has no predict_proba.  The
\* text of an exception is the object's: "raisesOtherCity" raises one whose
\* text contains 'city' (AttributeError: 'CityRainModel' object has no
\* attribute ...)
FaultyKinds == {"raisesValueError", "raisesKeyError", "raisesOther", "raisesOtherCity"}
KindException(kind) ==
    IF kind = "raisesValueError" THEN Exc("ValueError", "none")
    ELSE IF kind = "raisesKeyError" THEN Exc("KeyError", "none")
    ELSE IF kind = "raisesOtherCity" THEN Exc("Exception", "city")
    ELSE Exc("Exception", "none")

\* the fitted parameters of an object, which differ from file to file
Weight(artifact) == Len(artifact.file[2])

\* scaler.transform(df): the columns in FEATURE_COLUMNS order
Transform(scaler, x) ==
    [i \in 1..Len(FEATURE_COLUMNS) |-> x[FEATURE_COLUMNS[i]] + Weight(scaler)]

Dot(z) == z[1] * 37 + z[2] * 11 + z[3] * 7 + z[4] * 5 + z[5] * 101 + z[6] * 13

\* temperature_model.predict(df_scaled)[0], in thousandths of a degree
PredictTemperature(model, z) == 15000 + ((Dot(z) + 1009 * Weight(model)) % 20003)

\* rain_model.predict_proba(df_scaled)[0][1], in units of 0.00001
PredictProba(model, z) == (3 * Dot(z) + 7919 * Weight(model)) % 100001

\* rain_model.predict(df_scaled)[0]
PredictClass(model, z) == IF PredictProba(model, z) > 50000 THEN 1 ELSE 0

\* round(v, digits) on a value held in units: to the nearest multiple of
\* unit, halves to the even one
RoundTo(v, unit) ==
    LET q == v \div unit
        r == v % unit
    IN IF 2 * r < unit THEN q * unit
       ELSE IF 2 * r > unit THEN (q + 1) * unit
       ELSE IF q % 2 = 0 THEN q * unit ELSE (q + 1) * unit

\* predict_weather, lines 451-474
Infer(bundle, x) ==
    LET scaler == bundle["scaler"]
        temperature_model == bundle["temperature"]
        rain_model == bundle["rain"]
        z == Transform(scaler, x)
        failed(exc, steps) ==
            [raised |-> TRUE, exc |-> exc, steps |-> steps,
             temp_prediction |-> 0, rain_class |-> 0, rain_proba |-> 0]
    IN IF scaler.kind \in FaultyKinds
       THEN failed(KindException(scaler.kind), << <<"scaler.transform">> >>)
       ELSE IF temperature_model.kind \in FaultyKinds
       THEN failed(KindException(temperature_model.kind),
                   << <<"scaler.transform">>, <<"temperature.predict">> >>)
       ELSE IF rain_model.kind \in FaultyKinds
       THEN failed(KindException(rain_model.kind),
                   << <<"scaler.transform">>, <<"temperature.predict">>,
                      <<"rain.predict">> >>)
       ELSE IF rain_model.kind = "noProba"
       THEN failed(Exc("Exception", "none"),
                   << <<"scaler.transform">>, <<"temperature.predict">>,
                      <<"rain.predict">>, <<"rain.predict_proba">> >>)
       ELSE [raised |-> FALSE, exc |-> Exc("none", "none"),
             steps |-> << <<"scaler.transform">>, <<"temperature.predict">>,
                          <<"rain.predict">>, <<"rain.predict_proba">> >>,
             temp_prediction |-> PredictTemperature(temperature_model, z),
             rain_class |-> PredictClass(rain_model, z),
             rain_proba |-> PredictProba(rain_model, z)]

\* the largest timestamp stored so far
MaxTimestamp(rows) ==
    IF rows = <<>> THEN 0
    ELSE LET ts == {rows[i].timestamp : i \in 1..Len(rows)}
         IN CHOOSE t \in ts : \A u \in ts : u <= t

\* datetime.utcnow() at insert: the clock may show the value it showed at the
\* last insert (its resolution is finite) or a later one
Now(rows) == {MaxTimestamp(rows), MaxTimestamp(rows) + 1}

\* the INTEGER PRIMARY KEY of a new row
NextId(rows) ==
    IF rows = <<>> THEN 1
    ELSE LET ids == {rows[i].id : i \in 1..Len(rows)}
         IN 1 + CHOOSE n \in ids : \A m \in ids : m <= n

\* a label written in lower case
RainLabel_LowerCase(rain_class) == IF rain_class = 1 THEN "yes" ELSE "no"

\* predict_weather, line 474: "Yes" if rain_class == 1 else "No"
RainLabel(rain_class) == IF rain_class = 1 THEN "Yes" ELSE "No"

\* the city stored in one that keeps the registry key instead of the request's
NewRow_NormalizedCity(rows, city, x, inf, t) ==
    [id |-> NextId(rows), timestamp |-> t, city |-> _normalize_city_name(city),
     humidity |-> x.humidity, pressure |-> x.pressure, wind_speed |-> x.wind_speed,
     clouds |-> x.clouds, month |-> x.month, day |-> x.day,
     predicted_temperature |-> inf.temp_prediction,
     predicted_rain |-> RainLabel(inf.rain_class),
     rain_probability |-> inf.rain_proba]

\* a record whose temperature is averaged with the last stored one
NewRow_Smoothed(rows, city, x, inf, t) ==
    [id |-> NextId(rows), timestamp |-> t, city |-> city,
     humidity |-> x.humidity, pressure |-> x.pressure, wind_speed |-> x.wind_speed,
     clouds |-> x.clouds, month |-> x.month, day |-> x.day,
     predicted_temperature |->
         IF rows = <<>> THEN inf.temp_prediction
         ELSE (inf.temp_prediction + rows[Len(rows)].predicted_temperature) \div 2,
     predicted_rain |-> RainLabel(inf.rain_class),
     rain_probability |-> inf.rain_proba]

\* predict_weather, lines 474-488: Prediction(city=city, ...)
NewRow(rows, city, x, inf, t) ==
    [id |-> NextId(rows), timestamp |-> t, city |-> city,
     humidity |-> x.humidity, pressure |-> x.pressure, wind_speed |-> x.wind_speed,
     clouds |-> x.clouds, month |-> x.month, day |-> x.day,
     predicted_temperature |-> inf.temp_prediction,
     predicted_rain |-> RainLabel(inf.rain_class),
     rain_probability |-> inf.rain_proba]

\* what the database does to one request: nothing, or it fails the INSERT of
\* the flush, the COMMIT, or the SELECT of db.refresh
DbFaults == {"none", "flush", "commit", "refresh"}

\* a persist step that reports success whatever the database did
Persist_SwallowFailure(rows, row, dbfault) ==
    [raised |-> FALSE, exc |-> Exc("none", "none"),
     store |-> IF dbfault \in {"flush", "commit"} THEN rows ELSE Append(rows, row),
     steps |-> << <<"db.add">>, <<"db.commit">>, <<"db.refresh">> >>]

\* a persist step that writes the record over the last stored one
Persist_Overwrite(rows, row, dbfault) ==
    [raised |-> FALSE, exc |-> Exc("none", "none"),
     store |-> IF rows = <<>> THEN <<row>>
               ELSE [rows EXCEPT ![Len(rows)] = [row EXCEPT !.id = rows[Len(rows)].id]],
     steps |-> << <<"db.add">>, <<"db.commit">>, <<"db.refresh">> >>]

\* a persist step that adds the record to the session and never commits
Persist_NoCommit(rows, row, dbfault) ==
    [raised |-> FALSE, exc |-> Exc("none", "none"), store |-> rows,
     steps |-> << <<"db.add">> >>]

\* predict_weather, lines 490-492: db.add, db.commit, db.refresh.  The
\* message of a failed statement quotes it, and both statements name the
\* column city.
Persist(rows, row, dbfault) ==
    IF dbfault = "flush"
    THEN [raised |-> TRUE, exc |-> Exc("Exception", "city"), store |-> rows,
          steps |-> << <<"db.add">>, <<"db.commit">> >>]
    ELSE IF dbfault = "commit"
    THEN [raised |-> TRUE, exc |-> Exc("Exception", "none"), store |-> rows,
          steps |-> << <<"db.add">>, <<"db.commit">> >>]
    ELSE IF dbfault = "refresh"
    THEN [raised |-> TRUE, exc |-> Exc("Exception", "city"), store |-> Append(rows, row),
          steps |-> << <<"db.add">>, <<"db.commit">>, <<"db.refresh">> >>]
    ELSE [raised |-> FALSE, exc |-> Exc("none", "none"), store |-> Append(rows, row),
          steps |-> << <<"db.add">>, <<"db.commit">>, <<"db.refresh">> >>]

\* predict_weather, lines 501-523: the except clauses
ExceptionResponse(exc) ==
    IF exc.cls = "ValueError"
    THEN [status |-> 404, detail |-> "Model error"]
    ELSE IF exc.cls = "KeyError"
    THEN [status |-> 500, detail |-> "Model configuration error"]
    ELSE IF exc.mentions \in {"no such column", "city"}
    THEN [status |-> 500, detail |-> "Database schema error"]
    ELSE [status |-> 500, detail |-> "Prediction error"]

\* the lines the except clauses print
ExceptionLog(exc) ==
    IF exc.cls \in {"ValueError", "KeyError"} THEN <<>>
    ELSE IF exc.mentions \in {"no such column", "city"}
    THEN << <<"prediction_error", None>>, <<"schema_may_be_outdated", None>> >>
    ELSE << <<"prediction_error", None>> >>

\* predict_weather, lines 495-499: WeatherPrediction(...)
Prediction(inf) ==
    [status |-> 200,
     body |-> [predicted_temperature |-> RoundTo(inf.temp_prediction, 10),
               predicted_rain |-> RainLabel(inf.rain_class),
               rain_probability |-> RoundTo(inf.rain_proba, 10)]]

\* POST /predict: request validation (WeatherInput), then predict_weather
predict_weather(registry, rows, city, x, dbfault, t) ==
    IF ValidationErrors(x) # {}
    THEN [response |-> [status |-> 422, fields |-> ValidationErrors(x)],
          store |-> rows, log |-> <<>>, trace |-> << <<"validate">> >>,
          models |-> registry]
    ELSE
    LET r == get_models(registry, city)
        resolved == << <<"validate">>, <<"get_models", r.key, r.step>> >>
    IN IF r.raised
       THEN [response |-> ExceptionResponse(Exc("ValueError", "none")),
             store |-> rows, log |-> r.log, trace |-> resolved, models |-> r.models]
       ELSE
       LET inf == Infer(r.bundle, x)
       IN IF inf.raised
          THEN [response |-> ExceptionResponse(inf.exc), store |-> rows,
                log |-> r.log \o ExceptionLog(inf.exc),
                trace |-> resolved \o inf.steps, models |-> r.models]
          ELSE
          LET saved == Persist(rows, NewRow(rows, city, x, inf, t), dbfault)
          IN IF saved.raised
             THEN [response |-> ExceptionResponse(saved.exc), store |-> saved.store,
                   log |-> r.log \o ExceptionLog(saved.exc),
                   trace |-> resolved \o inf.steps \o saved.steps,
                   models |-> r.models]
             ELSE [response |-> Prediction(inf), store |-> saved.store,
                   log |-> r.log,
                   trace |-> resolved \o inf.steps \o saved.steps
                                 \o << <<"respond">> >>,
                   models |-> r.models]


(***************************************************************************)
(* The server                                                              *)
(***************************************************************************)
MaxRecords == 2

Vector(h, p, w, c, m, d) ==
    [humidity |-> h, pressure |-> p, wind_speed |-> w, clouds |-> c, month |-> m, day |-> d]

\* the example of WeatherInput.Config, and the two corners of the valid box
ExampleVector == Vector(75, 1010, 15, 60, 7, 15)
LowVector == Vector(0, 900, 0, 0, 1, 1)
HighVector == Vector(100, 1100, 100, 100, 12, 31)
ValidVectors == {LowVector, HighVector}

\* values just below and just above each field's range
JustBelow == Vector(-1, 899, -1, -1, 0, 0)
JustAbove == Vector(101, 1101, 101, 101, 13, 32)

\* the example with one field just below or just above its range, and one
\* vector with four fields out of range
InvalidVectors ==
    {[ExampleVector EXCEPT ![f] = JustBelow[f]] : f \in Fields}
        \cup {[ExampleVector EXCEPT ![f] = JustAbove[f]] : f \in Fields}
        \cup {Vector(-1, 1200, 15, 60, 13, 0)}

PredictCities == {None, Delhi, Pune}

\* the bodies POST /predict receives, each with what the database does to
\* the request (a rejected body never reaches the database)
PredictInputs ==
    {[city |-> c, x |-> x, db |-> f] : c \in PredictCities, x \in ValidVectors, f \in DbFaults}
        \cup {[city |-> Delhi, x |-> x, db |-> "none"] : x \in InvalidVectors}

\* artifact sets: the three files of a bundle, alike or with one exception
AllOf(status) == [c \in ComponentSet |-> status]
But(status, comp, other) == [AllOf(status) EXCEPT ![comp] = other]

Disk(root, d, nd) ==
    [file \in AllFiles |->
        IF file[1] = "root" THEN root[file[3]]
        ELSE IF file[2] = delhi THEN d[file[3]]
        ELSE nd[file[3]]]

\* the installations the server is run on
ServeDisks ==
    { Disk(AllOf("ok"), But("ok", "scaler", "absent"), AllOf("ok")),
      Disk(But("ok", "scaler", "raisesOther"), AllOf("ok"), AllOf("absent")),
      Disk(AllOf("absent"), But("ok", "scaler", "raisesValueError"), AllOf("absent")),
      Disk(AllOf("absent"), AllOf("absent"), But("ok", "temperature", "raisesKeyError")),
      Disk(But("ok", "rain", "noProba"), AllOf("absent"), AllOf("absent")),
      Disk(But("ok", "rain", "raisesValueError"), AllOf("absent"), AllOf("corrupt")),
      Disk(But("ok", "rain", "raisesOtherCity"), AllOf("absent"), AllOf("absent")),
      Disk(AllOf("absent"), AllOf("absent"), AllOf("absent")) }

Init ==
    \E f \in ServeDisks :
        \E order \in Perms(ListedCities(f)) : Boot(f, order)

\* POST /predict
PredictWeather(in) ==
    /\ phase = "serving"
    /\ Len(store) < MaxRecords
    /\ \E t \in Now(store) :
        \E r \in {predict_weather(models, store, in.city, in.x, in.db, t)} :
           /\ response' = r.response
           /\ store' = r.store
           /\ log' = r.log
           /\ trace' = r.trace
           /\ models' = r.models
    /\ request' = [op |-> "predict", city |-> in.city, x |-> in.x, db |-> in.db]
    /\ UNCHANGED <<inflight, files, listing, phase>>

\* the orders ORDER BY timestamp DESC allows: rows of equal timestamp come in
\* any order
Orderings(rows) ==
    {p \in Perms(1..Len(rows)) :
        \A i, j \in 1..Len(rows) : i < j => rows[p[i]].timestamp >= rows[p[j]].timestamp}

Limits == {1, 50}

\* GET /history?limit=N
GetPredictionHistory(limit) ==
    /\ phase = "serving"
    /\ \E p \in Orderings(store) :
        response' = [status |-> 200,
                     body |-> [i \in 1..(IF limit < Len(store) THEN limit ELSE Len(store))
                                  |-> store[p[i]]]]
    /\ request' = [op |-> "history", limit |-> limit]
    /\ log' = <<>>
    /\ trace' = <<>>
    /\ UNCHANGED <<inflight, files, listing, models, phase, store>>

\* a clear whose DELETE stays in effect when the commit fails
clear_history_NoRollback(rows, dbfault) ==
    IF dbfault = "none"
    THEN [response |-> [status |-> 200, records_deleted |-> Len(rows)],
          store |-> <<>>]
    ELSE [response |-> [status |-> 500, detail |-> "Delete error"], store |-> <<>>]

\* a clear that spares the newest record and counts the ones it removed
clear_history_KeepNewest(rows, dbfault) ==
    IF dbfault = "none"
    THEN [response |-> [status |-> 200,
                        records_deleted |-> IF rows = <<>> THEN 0 ELSE Len(rows) - 1],
          store |-> IF rows = <<>> THEN <<>> ELSE <<rows[Len(rows)]>>]
    ELSE [response |-> [status |-> 500, detail |-> "Delete error"], store |-> rows]

\* clear_history: db.query(Prediction).delete() returns the number of rows
\* the DELETE matched, then db.commit(); when either raises, db.rollback()
clear_history(rows, dbfault) ==
    IF dbfault = "none"
    THEN [response |-> [status |-> 200, records_deleted |-> Len(rows)],
          store |-> <<>>]
    ELSE [response |-> [status |-> 500, detail |-> "Delete error"], store |-> rows]

\* DELETE /history
ClearHistory(dbfault) ==
    /\ phase = "serving"
    /\ \E r \in {clear_history(store, dbfault)} :
          /\ store' = r.store
          /\ response' = r.response
    /\ request' = [op |-> "clear", db |-> dbfault]
    /\ log' = <<>>
    /\ trace' = <<>>
    /\ UNCHANGED <<inflight, files, listing, models, phase>>

\* db.query(Prediction).count()
CountAll(rows) == Len(rows)

\* db.query(Prediction).filter(Prediction.predicted_rain == label).count()
CountRain(rows, label) ==
    Cardinality({i \in 1..Len(rows) : rows[i].predicted_rain = label})

RECURSIVE SumTemperature(_)
\* sum([t[0] for t in avg_temp])
SumTemperature(rows) ==
    IF rows = <<>> THEN 0
    ELSE Head(rows).predicted_temperature + SumTemperature(Tail(rows))

\* a / b to the nearest integer
RoundDiv(a, b) == (2 * a + b) \div (2 * b)

\* get_statistics, lines 558-570: the body built from what the four queries
\* returned; the percentage in hundredths of a percent, the average in
\* thousandths of a degree rounded to hundredths
StatisticsBody(total_predictions, rain_predictions, no_rain_predictions, avg_temp) ==
    [total_predictions |-> total_predictions,
     rain_predictions |-> rain_predictions,
     no_rain_predictions |-> no_rain_predictions,
     rain_percentage |->
         IF total_predictions > 0
         THEN RoundDiv(rain_predictions * 10000, total_predictions)
         ELSE 0,
     average_predicted_temperature |->
         IF avg_temp # <<>>
         THEN 10 * RoundDiv(SumTemperature(avg_temp), 10 * Len(avg_temp))
         ELSE 0]

\* get_statistics with no other request running: three counts and the list
\* of temperatures, one query each, all of the same rows
get_statistics(rows, dbfault) ==
    IF dbfault # "none"
    THEN [status |-> 500, detail |-> "Stats error"]
    ELSE [status |-> 200,
          body |-> StatisticsBody(CountAll(rows), CountRain(rows, "Yes"),
                                  CountRain(rows, "No"), rows)]

\* GET /stats
GetStatistics(dbfault) ==
    /\ phase = "serving"
    /\ response' = get_statistics(store, dbfault)
    /\ request' = [op |-> "stats", db |-> dbfault]
    /\ log' = <<>>
    /\ trace' = <<>>
    /\ UNCHANGED <<inflight, files, listing, models, phase, store>>

\* health_check: list(model_manager.models.keys())
health_check(registry) ==
    [status |-> 200,
     body |-> [status |-> "healthy", models_loaded |-> TRUE, database |-> "connected",
               available_cities |-> [i \in 1..Len(registry) |-> registry[i].key]]]

\* GET /health
HealthCheck ==
    /\ phase = "serving"
    /\ response' = health_check(models)
    /\ request' = [op |-> "health"]
    /\ log' = <<>>
    /\ trace' = <<>>
    /\ UNCHANGED <<inflight, files, listing, models, phase, store>>

Next ==
    \/ LoadModels
    \/ \E in \in PredictInputs : PredictWeather(in)
    \/ \E limit \in Limits : GetPredictionHistory(limit)
    \/ \E dbfault \in {"none", "commit"} : ClearHistory(dbfault)
    \/ \E dbfault \in {"none", "query"} : GetStatistics(dbfault)
    \/ HealthCheck

Spec == Init /\ [][Next]_vars

(***************************************************************************)
(* Direct calls of _normalize_city_name                                    *)
(***************************************************************************)
MaxCityLen == 4

\* a lower-case and an upper-case letter, the space, the tab and the
\* separator
CityChars == {"a", "A", " ", "\t", "_"}

\* every string of at most MaxCityLen of these characters
TypedCities == UNION {[1..n -> CityChars] : n \in 0..MaxCityLen}

\* spellings of the aliases and of other cities
BangalorePadded == <<" ","B","a","n","g","a","l","o","r","e">>
BOMBAY          == <<"B","O","M","B","A","Y">>
MadrasPadded    == <<"m","a","d","r","a","s"," ">>
BombayCity      == <<"B","o","m","b","a","y"," ","C","i","t","y">>
KolkataPadded   == <<" "," ","K","o","l","k","a","t","a"," ">>
kolkata         == <<"k","o","l","k","a","t","a">>
NewDelhiWide    == <<"N","e","w"," "," ","D","e","l","h","i">>
NewDelhiTab     == <<"N","e","w","\t","D","e","l","h","i">>

SpelledCities ==
    {BangalorePadded, bangalore, BOMBAY, bombay, MadrasPadded, madras, BombayCity,
     KolkataPadded, kolkata, Delhi, DelhiPadded, NewDelhi, NewDelhiWide, NewDelhiTab,
     new_delhi, bengaluru, mumbai, chennai, default_city}

NormalizeInputs == {None} \cup TypedCities \cup SpelledCities

\* a caller holds a city (Optional[str]) it has not normalized yet
InitNormalize ==
    /\ files = [file \in AllFiles |-> "absent"]
    /\ listing = <<>>
    /\ models = <<>>
    /\ phase = "normalize"
    /\ store = <<>>
    /\ request \in {[op |-> "city", city |-> city] : city \in NormalizeInputs}
    /\ response = NoResponse
    /\ log = <<>>
    /\ trace = <<>>
    /\ inflight = [c \in Clients |-> Idle]

\* a call self._normalize_city_name(city)
NormalizeCity ==
    /\ phase = "normalize"
    /\ request.op = "city"
    /\ request' = [op |-> "_normalize_city_name", city |-> request.city]
    /\ response' = [status |-> 0, key |-> _normalize_city_name(request.city)]
    /\ UNCHANGED <<inflight, files, listing, models, phase, store, log, trace>>

NextNormalize == NormalizeCity

SpecNormalize == InitNormalize /\ [][NextNormalize]_vars

(***************************************************************************)
(* Claims about the registry (checked under SpecRegistry)                  *)
(***************************************************************************)
Resolved == request.op = "get_models" /\ ~response.raised

\* the registry key of the bundle the last resolution returned, and its rule
ResolutionOf(tr) == tr[CHOOSE i \in 1..Len(tr) : tr[i][1] = "get_models"]
UsedKey == ResolutionOf(trace)[2]
UsedStep == ResolutionOf(trace)[3]

\* the first position of a sequence of registry entries that satisfies P
FirstWhere(registry, P(_)) ==
    LET hits == {i \in 1..Len(registry) : P(registry[i])}
    IN IF hits = {} THEN 0 ELSE CHOOSE i \in hits : \A j \in hits : i <= j

IsKey(k, e) == e.key = k
Overlaps(k, e) == IsSubstring(e.key, k) \/ IsSubstring(k, e.key)

\* the position the stated precedence selects for key k, 0 when it fails
PrecedenceChoice(registry, k) ==
    LET isK(e) == IsKey(k, e)
        overlapsK(e) == Overlaps(k, e)
        isDefault(e) == IsKey(default_city, e)
        complete(e) == ComponentSet \subseteq DOMAIN e.bundle
    IN IF FirstWhere(registry, isK) # 0 THEN FirstWhere(registry, isK)
       ELSE IF FirstWhere(registry, overlapsK) # 0 THEN FirstWhere(registry, overlapsK)
       ELSE IF FirstWhere(registry, isDefault) # 0 THEN FirstWhere(registry, isDefault)
       ELSE FirstWhere(registry, complete)

\* C1: for every registry content and every requested city, get_models
\* returns the bundle chosen by the precedence exact key, first overlapping
\* key, 'default', first complete bundle, and raises when none applies.
C1_Precedence ==
    request.op = "get_models" =>
        LET i == PrecedenceChoice(models, _normalize_city_name(request.city))
        IN IF i = 0
           THEN response.raised
           ELSE /\ ~response.raised
                /\ response.bundle = models[i].bundle
                /\ UsedKey = models[i].key

\* a substring match was preferred to a registered default bundle
C1_Witness ==
    /\ Resolved
    /\ UsedStep = "partial"
    /\ UsedKey # default_city
    /\ DictHas(models, default_city)

LoadableComponents(f, dir, city) == {c \in ComponentSet : Loadable(f[<<dir, city, c>>])}

\* C2: a key with fewer than three loadable artifacts is never registered,
\* every registered bundle has the three components, and get_models returns
\* only registered, complete bundles.
C2_NeverIncomplete ==
    /\ \A i \in 1..Len(models) : ComponentSet \subseteq DOMAIN models[i].bundle
    /\ \A city \in ModelCities :
           LoadableComponents(files, "models", city) # ComponentSet => ~DictHas(models, city)
    /\ LoadableComponents(files, "root", <<>>) # ComponentSet => ~DictHas(models, default_city)
    /\ Resolved =>
           /\ ComponentSet \subseteq DOMAIN response.bundle
           /\ \E i \in 1..Len(models) : models[i].bundle = response.bundle

\* a city with two of its three artifacts and a default with one were on
\* disk, and a request for that city was resolved
C2_Witness ==
    /\ Resolved
    /\ request.city = Delhi
    /\ Cardinality(LoadableComponents(files, "models", delhi)) = 2
    /\ Cardinality(LoadableComponents(files, "root", <<>>)) = 1

\* some bundle has its three artifacts on disk, all loadable
SomeCompleteOnDisk ==
    \/ LoadableComponents(files, "root", <<>>) = ComponentSet
    \/ \E city \in ModelCities : LoadableComponents(files, "models", city) = ComponentSet

\* C5: startup raises exactly when no complete bundle, the default included,
\* can be assembled from the files on disk.
C5_StartupFailsIffNoBundle ==
    phase # "boot" => (phase = "failed" <=> ~SomeCompleteOnDisk)

\* startup succeeded with one bundle although other artifacts were missing
\* or failed to load and there was no default
C5_Witness ==
    /\ phase = "serving"
    /\ Len(models) = 1
    /\ ~DictHas(models, default_city)
    /\ \E file \in AllFiles : files[file] = "corrupt"
    /\ \E file \in AllFiles : files[file] = "absent"

\* a printed line names the model that was used
Signalled ==
    \E i \in 1..Len(log) :
        \/ log[i][1] = "not_found_using_default" /\ UsedKey = default_city
        \/ log[i][1] = "using_models_from" /\ log[i][2] = UsedKey

\* C3: when 'default' is the only registered bundle, a request naming an
\* unregistered city gets the default bundle and the substitution is
\* signalled.
C3_DefaultSubstitutionSignalled ==
    (/\ request.op = "get_models"
     /\ Len(models) = 1
     /\ models[1].key = default_city
     /\ ~Falsy(request.city)
     /\ Strip(request.city) # <<>>
     /\ _normalize_city_name(request.city) # default_city)
        => /\ ~response.raised
           /\ response.bundle = models[1].bundle
           /\ Signalled


(***************************************************************************)
(* Claims about /predict and /history (checked under Spec)                 *)
(***************************************************************************)
ModelSteps == {"scaler.transform", "temperature.predict", "rain.predict",
               "rain.predict_proba"}
DbSteps == {"db.add", "db.commit", "db.refresh"}

Did(tr, steps) == \E i \in 1..Len(tr) : tr[i][1] \in steps

\* get_models returned a bundle to the last /predict
PredictResolved ==
    /\ request.op = "predict"
    /\ Did(trace, {"get_models"})
    /\ UsedStep # "none"

\* C4: whenever get_models returns a bundle registered under another key than
\* the normalized requested one, a log entry or a response field names the
\* model that was used.
C4_SubstitutionObservable ==
    (/\ PredictResolved
     /\ response.status = 200
     /\ UsedKey # _normalize_city_name(request.city))
        => \/ Signalled
           \/ "model" \in DOMAIN response.body

\* the fields of x outside the ranges the claim states
C6_OutOfRange(x) ==
    {f \in {"humidity", "clouds", "wind_speed"} : x[f] < 0 \/ x[f] > 100}
        \cup {f \in {"pressure"} : x[f] < 900 \/ x[f] > 1100}
        \cup {f \in {"month"} : x[f] < 1 \/ x[f] > 12}
        \cup {f \in {"day"} : x[f] < 1 \/ x[f] > 31}

\* C6: a /predict request with a feature outside its range is rejected with
\* an error naming every offending field, before the registry, the scaler or
\* a model is used, and the store is left as it was.
C6_InvalidRejectedBeforeModels ==
    [][(request'.op = "predict" /\ C6_OutOfRange(request'.x) # {})
          => /\ response'.status = 422
             /\ response'.fields = C6_OutOfRange(request'.x)
             /\ ~Did(trace', ModelSteps \cup DbSteps \cup {"get_models"})
             /\ store' = store]_vars

\* the request with humidity -1, pressure 1200, month 13 and day 0 was
\* rejected, with records in the store
C6_Witness ==
    /\ request.op = "predict"
    /\ request.x = Vector(-1, 1200, 15, 60, 13, 0)
    /\ response.status = 422
    /\ response.fields = {"humidity", "pressure", "month", "day"}
    /\ store # <<>>

\* the last /predict computed its three results and its save failed
SaveFailed ==
    /\ request.op = "predict"
    /\ request.db \in {"flush", "commit"}
    /\ Did(trace, {"rain.predict_proba"})
    /\ Did(trace, {"db.add"})

InferenceFailed ==
    /\ request.op = "predict"
    /\ trace # <<>>
    /\ trace[Len(trace)][1] \in ModelSteps
    /\ response.status # 200

\* C8: a failure raised by the scaler, the regressor or the classifier is
\* answered 500, and 404 is answered only when resolution found no model.
C8_InferenceFailureIs500 ==
    /\ InferenceFailed => response.status = 500
    /\ (request.op = "predict" /\ response.status = 404)
           => Did(trace, {"get_models"}) /\ UsedStep = "none"

\* C9: a /predict that answers 200 appends exactly one record, holding the
\* six features and the city as sent and the temperature, rain label and
\* rain probability that were computed.
C9_OneRecordPerPrediction ==
    [][(request'.op = "predict" /\ response'.status = 200)
          => /\ Len(store') = Len(store) + 1
             /\ SubSeq(store', 1, Len(store)) = store
             /\ LET row == store'[Len(store')]
                    x == request'.x
                    key == ResolutionOf(trace')[2]
                    inf == Infer(DictGet(models, key), x)
                IN /\ row.city = request'.city
                   /\ <<row.humidity, row.pressure, row.wind_speed, row.clouds,
                        row.month, row.day>>
                          = <<x.humidity, x.pressure, x.wind_speed, x.clouds, x.month, x.day>>
                   /\ row.predicted_temperature = inf.temp_prediction
                   /\ row.predicted_rain = (IF inf.rain_class = 1 THEN "Yes" ELSE "No")
                   /\ row.rain_probability = inf.rain_proba
                   /\ response'.body.predicted_temperature
                          = RoundTo(row.predicted_temperature, 10)
                   /\ response'.body.predicted_rain = row.predicted_rain
                   /\ response'.body.rain_probability = RoundTo(row.rain_probability, 10)]_vars

\* a request for 'Delhi' was answered 200 and its record, the second of the
\* store, holds 'Delhi' and a temperature the response shows rounded
C9_Witness ==
    /\ request.op = "predict"
    /\ response.status = 200
    /\ request.city = Delhi
    /\ Len(store) = 2
    /\ store[2].city = Delhi
    /\ store[2].predicted_temperature # response.body.predicted_temperature

\* the city, input and result fields of a record
Payload(row) ==
    <<row.city, row.humidity, row.pressure, row.wind_speed, row.clouds, row.month,
      row.day, row.predicted_temperature, row.predicted_rain, row.rain_probability>>

\* C10: a history query with limit 1 that follows a successful /predict
\* returns a record with the city, input and result fields of that request,
\* whatever was stored before.
C10_HistoryReturnsLatest ==
    [][(/\ request.op = "predict"
        /\ response.status = 200
        /\ request'.op = "history"
        /\ request'.limit = 1)
          => /\ Len(response'.body) = 1
             /\ Payload(response'.body[1]) = Payload(store[Len(store)])
             /\ response'.body[1].city = request.city]_vars

(***************************************************************************)
(* Claims about the store and the registry at request time (checked under  *)
(* Spec)                                                                   *)
(***************************************************************************)
\* the positions of the records that carry a label
Labelled(rows, label) == {i \in 1..Len(rows) : rows[i].predicted_rain = label}

\* the class the classifier of the bundle registered under key returns for x
ClassFor(registry, key, x) ==
    LET bundle == DictGet(registry, key)
    IN PredictClass(bundle["rain"], Transform(bundle["scaler"], x))

\* C11: in every reachable store the records labelled 'Yes' and the records
\* labelled 'No' add up to all records, and a record that /predict stores is
\* labelled 'Yes' exactly when the classifier returned class 1.
C11_LabelsPartitionStore ==
    /\ [](Cardinality(Labelled(store, "Yes")) + Cardinality(Labelled(store, "No"))
              = Len(store))
    /\ [][(request'.op = "predict" /\ Len(store') = Len(store) + 1)
              => (store'[Len(store')].predicted_rain = "Yes"
                    <=> ClassFor(models, ResolutionOf(trace')[2], request'.x) = 1)]_vars

\* /stats counted a store that holds a 'Yes' record and a 'No' record
C11_Witness ==
    /\ request.op = "stats"
    /\ response.status = 200
    /\ response.body.rain_predictions = 1
    /\ response.body.no_rain_predictions = 1
    /\ response.body.total_predictions = 2
    /\ Len(store) = 2

\* C12: a DELETE /history the database carries out leaves no record and
\* reports as records_deleted the number of records the store held, and a
\* count taken next finds 0.
C12_ClearRemovesAll ==
    [][/\ (request'.op = "clear" /\ request'.db = "none")
            => /\ response'.status = 200
               /\ response'.records_deleted = Len(store)
               /\ store' = <<>>
       /\ (/\ request.op = "clear"
           /\ response.status = 200
           /\ request'.op = "stats"
           /\ response'.status = 200)
            => response'.body.total_predictions = 0]_vars

\* a clear removed the two records of the store
C12_Witness ==
    /\ request.op = "clear"
    /\ response.status = 200
    /\ response.records_deleted = 2
    /\ store = <<>>

\* C13: while the server serves, model_manager.models is the mapping
\* startup built from the files: after any sequence of /predict, /health,
\* /history, /stats and DELETE /history requests it has the same keys, in the
\* same order, with the same bundle components.
C13_RegistryReadOnly ==
    phase = "serving" => models = _load_models(files, listing).models

\* a /predict was served by substitution from a registry of several keys,
\* after another request had stored a record
C13_Witness ==
    /\ PredictResolved
    /\ response.status = 200
    /\ UsedStep = "partial"
    /\ Len(models) >= 2
    /\ Len(store) = 2

\* the request a record was stored for, and the results it holds
Asked(row) ==
    <<row.city, Vector(row.humidity, row.pressure, row.wind_speed, row.clouds,
                       row.month, row.day)>>
Results(row) == <<row.predicted_temperature, row.predicted_rain, row.rain_probability>>

\* what the bundle the registry resolves city to computes for x
Computed(registry, city, x) ==
    LET inf == Infer(get_models(registry, city).bundle, x)
    IN <<inf.temp_prediction, IF inf.rain_class = 1 THEN "Yes" ELSE "No", inf.rain_proba>>

Normalized == request.op = "_normalize_city_name"

\* C15: _normalize_city_name returns a key for every city: 'default' for an
\* absent (None) and for an empty city, and a string for every other one.
C15_TotalWithDefault ==
    Normalized =>
        /\ (request.city = None \/ request.city = <<>>) => response.key = default_city
        /\ response.key # None
        /\ response.key \in Seq(STRING)

\* the empty string was normalized to 'default'
C15_Witness ==
    /\ Normalized
    /\ request.city = <<>>
    /\ response.key = default_city

\* str.upper(), one character, and the spellings of s in other cases
UpperChar(c) ==
    IF \E i \in 1..26 : LowerChars[i] = c
    THEN UpperChars[CHOOSE i \in 1..26 : LowerChars[i] = c]
    ELSE c
Recased(s) ==
    {Lower(s),
     [i \in 1..Len(s) |-> UpperChar(s[i])],
     [i \in 1..Len(s) |-> IF i % 2 = 1 THEN UpperChar(s[i]) ELSE LowerChar(s[i])],
     [i \in 1..Len(s) |-> IF LowerChar(s[i]) = s[i] THEN UpperChar(s[i]) ELSE LowerChar(s[i])]}

\* s with up to two spaces added on either side, and with leading and
\* trailing spaces removed
Spaces(n) == [i \in 1..n |-> " "]
Padded(s) == {Spaces(a) \o s \o Spaces(b) : a, b \in 0..2}
Unpadded(s) ==
    {t \in {SubSeq(s, a + 1, Len(s) - b) : a, b \in 0..Len(s)} :
        \E a, b \in 0..Len(s) : Spaces(a) \o t \o Spaces(b) = s}

\* C16: for every city string s, _normalize_city_name gives the key of s
\* to s with spaces added or removed at its ends and to s with letters
\* changed in case.
C16_CaseAndPaddingIgnored ==
    (Normalized /\ request.city # None) =>
        \A t \in Padded(request.city) \cup Unpadded(request.city) \cup Recased(request.city) :
            _normalize_city_name(t) = response.key

\* the words of s: its maximal runs of characters that are no whitespace
RECURSIVE Words(_)
Words(s) ==
    LET t == LStrip(s)
        stops == {i \in 1..Len(t) : t[i] \in Whitespace}
        n == IF stops = {} THEN Len(t) + 1
             ELSE CHOOSE i \in stops : \A j \in stops : i <= j
    IN IF t = <<>> THEN <<>>
       ELSE <<SubSeq(t, 1, n - 1)>> \o Words(SubSeq(t, n, Len(t)))

\* the words with one separator between consecutive ones
RECURSIVE JoinWords(_)
JoinWords(ws) ==
    IF ws = <<>> THEN <<>>
    ELSE IF Len(ws) = 1 THEN ws[1]
    ELSE ws[1] \o <<"_">> \o JoinWords(Tail(ws))

\* C17: the key of a city of several words is its lower-cased words with
\* exactly one separator between consecutive ones, so cities that differ
\* only in the whitespace between their words have the same key.
C17_InternalWhitespaceCollapsed ==
    (/\ Normalized
     /\ request.city # None
     /\ Len(Words(request.city)) >= 2
     /\ \A i \in 1..Len(request.city) : request.city[i] # "_") =>
        /\ response.key = JoinWords(Words(Lower(request.city)))
        /\ \A t \in NormalizeInputs \ {None} :
               Words(t) = Words(request.city) => _normalize_city_name(t) = response.key

\* the alias table of the claim: spelling -> canonical key
AliasOf(n) ==
    IF n = <<"b","a","n","g","a","l","o","r","e">> THEN <<"b","e","n","g","a","l","u","r","u">>
    ELSE IF n = <<"b","o","m","b","a","y">> THEN <<"m","u","m","b","a","i">>
    ELSE IF n = <<"m","a","d","r","a","s">> THEN <<"c","h","e","n","n","a","i">>
    ELSE <<>>

\* C18: a city that is an alias once trimmed and lower-cased gets the
\* canonical key of the alias (' Bangalore' bengaluru, 'BOMBAY' mumbai,
\* 'madras ' chennai), and the key of any other city is the city trimmed,
\* lower-cased and with its spaces replaced, unchanged by the table.
C18_AliasAfterNormalization ==
    (Normalized /\ ~Falsy(request.city)) =>
        LET n == Strip(Lower(request.city))
        IN /\ AliasOf(n) # <<>> => response.key = AliasOf(n)
           /\ AliasOf(n) = <<>> => response.key = ReplaceSpaces(n)
           /\ request.city = BangalorePadded => response.key = bengaluru
           /\ request.city = BOMBAY => response.key = mumbai
           /\ request.city = MadrasPadded => response.key = chennai
           /\ request.city = BombayCity
                  => response.key = <<"b","o","m","b","a","y","_","c","i","t","y">>

\* ' Bangalore' was normalized to bengaluru
C18_Witness ==
    /\ Normalized
    /\ request.city = BangalorePadded
    /\ response.key = bengaluru

(***************************************************************************)
(* Claims about ties in the registry (checked under SpecRegistry)          *)
(***************************************************************************)
\* the keys in the order startup registers them: 'default' when its three
\* files load, then the cities with three loadable files in the order the
\* directory lists them
RegistrationOrder(f, order) ==
    LET loads(city) == LoadableComponents(f, "models", city) = ComponentSet
    IN (IF LoadableComponents(f, "root", <<>>) = ComponentSet
        THEN <<default_city>> ELSE <<>>)
           \o SelectSeq(order, loads)

\* the first key of a sequence of keys that satisfies P
FirstKey(keys, P(_)) ==
    keys[CHOOSE i \in 1..Len(keys) : P(keys[i]) /\ \A j \in 1..(i - 1) : ~P(keys[j])]

\* C19: when the substring match or the last resort decides, the bundle
\* returned is the one of the first registered key that qualifies, and two
\* calls for the same key return the same bundle.
C19_FirstRegisteredWins ==
    /\ [](Resolved =>
             LET k == _normalize_city_name(request.city)
                 keys == RegistrationOrder(files, listing)
                 overlaps(key) == IsSubstring(key, k) \/ IsSubstring(k, key)
                 any(key) == TRUE
             IN /\ UsedStep = "partial" => UsedKey = FirstKey(keys, overlaps)
                /\ UsedStep = "last_resort" => UsedKey = FirstKey(keys, any)
                /\ response.bundle = DictGet(models, UsedKey))
    /\ [][(/\ request.op = "get_models"
            /\ request'.op = "get_models"
            /\ _normalize_city_name(request'.city) = _normalize_city_name(request.city))
              => response'.bundle = response.bundle]_vars

\* two registered cities contained the requested key, and the one the
\* directory listed first, new_delhi, was returned
C19_Witness ==
    /\ Resolved
    /\ request.city = Del
    /\ listing = <<new_delhi, delhi>>
    /\ DictHas(models, delhi)
    /\ UsedKey = new_delhi

(***************************************************************************)
(* Claims about the order of the steps of /predict (checked under Spec)    *)
(***************************************************************************)
\* the steps of a request in the order the specification states them, and
\* in the order in which validation comes first
StatedOrder ==
    <<"get_models", "validate", "scaler.transform", "temperature.predict",
      "rain.predict", "rain.predict_proba", "db.add", "db.commit", "db.refresh",
      "respond">>
ValidatedFirstOrder ==
    <<"validate", "get_models", "scaler.transform", "temperature.predict",
      "rain.predict", "rain.predict_proba", "db.add", "db.commit", "db.refresh",
      "respond">>

Rank(order, name) == CHOOSE k \in 1..Len(order) : order[k] = name

\* tr is a run through the steps of order, from the first one on, that
\* skips none and repeats none
RunsThrough(tr, order) ==
    /\ Len(tr) <= Len(order)
    /\ \A i \in 1..Len(tr) : tr[i][1] = order[i]

\* a /predict whose steps were tr: it went through order and stopped at the
\* first failing step, persisted nothing unless it committed, and emitted a
\* result only as its last step, after the record was stored
Pipeline(order, req, tr, resp, before, after) ==
    LET last == tr[Len(tr)][1]
    IN /\ tr # <<>>
       /\ RunsThrough(tr, order)
       /\ C6_OutOfRange(req.x) # {} => last = "validate"
       /\ resp.status = 200 <=> last = "respond"
       /\ "body" \in DOMAIN resp <=> last = "respond"
       /\ last = "respond" => Len(after) = Len(before) + 1
       /\ ~Did(tr, {"db.commit"}) => after = before
       /\ (Did(tr, {"db.add"}) /\ req.db \in {"flush", "commit"}) => last = "db.commit"
       /\ (Did(tr, {"db.add"}) /\ req.db = "refresh") => last = "db.refresh"
       /\ (Did(tr, {"get_models"}) /\ ResolutionOf(tr)[3] = "none") => ~Did(tr, ModelSteps)

\* C20 as stated: a /predict advances through Normalized, Resolved,
\* Validated, Inferred, Persisted, Responded in that order and stops at the
\* first failing step.
C20_PipelineAsStated ==
    [][request'.op = "predict"
          => Pipeline(StatedOrder, request', trace', response', store, store')]_vars

\* C20 as amended: a /predict is validated first, then advances through
\* Normalized, Resolved, Inferred, Persisted, Responded in that order and
\* stops at the first failing step: a request that fails validation is not
\* resolved, nothing is persisted after a failed validation or inference,
\* and a result is emitted only after the persist step.
C20_PipelineValidatesFirst ==
    [][request'.op = "predict"
          => Pipeline(ValidatedFirstOrder, request', trace', response', store, store')]_vars

\* a request was validated and resolved, then stopped at its failing step,
\* the probability of the classifier
C20_Witness ==
    /\ request.op = "predict"
    /\ Len(trace) = 6
    /\ trace[6][1] = "rain.predict_proba"
    /\ response.status = 500

(***************************************************************************)
(* Claims about the frame of the handlers and about failures (checked      *)
(* under Spec)                                                             *)
(***************************************************************************)
\* rows, with at most one record appended
GrownByAtMostOne(before, after) ==
    /\ Len(after) \in {Len(before), Len(before) + 1}
    /\ SubSeq(after, 1, Len(before)) = before

\* C21: no request changes a stored record; only DELETE /history removes
\* records; /predict appends at most one record and /history, /stats and
\* /health leave the store as it is.
C21_RecordsImmutable ==
    [][/\ request'.op # "clear" => GrownByAtMostOne(store, store')
       /\ request'.op \in {"history", "stats", "health"} => store' = store
       /\ request'.op = "clear" => store' \in {store, <<>>}]_vars

\* a second record was appended behind the first
C21_Witness ==
    /\ request.op = "predict"
    /\ response.status = 200
    /\ Len(store) = 2
    /\ store[1].id = 1
    /\ store[2].id = 2

(***************************************************************************)
(* Claims about resolution at request time (checked under SpecRegistry)    *)
(***************************************************************************)
\* C22: once startup has succeeded, get_models returns a complete bundle
\* for every requested city, absent, empty, registered or unknown: the 'No
\* valid models available' error is never raised.
C22_ResolutionTotal ==
    request.op = "get_models" =>
        /\ phase = "serving"
        /\ ~response.raised
        /\ UsedStep # "none"
        /\ ComponentSet \subseteq DOMAIN response.bundle

\* an absent city was resolved by the last resort, without a default bundle
C22_Witness ==
    /\ Resolved
    /\ request.city = None
    /\ UsedStep = "last_resort"
    /\ ~DictHas(models, default_city)

(***************************************************************************)
(* Idempotence of _normalize_city_name (checked under SpecNormalize)       *)
(***************************************************************************)
\* C23: normalizing the key of a city string, whitespace-only strings
\* included, gives that key again.
C23_NormalizeIdempotent ==
    (Normalized /\ request.city # None) =>
        _normalize_city_name(response.key) = response.key

(***************************************************************************)
(* Installations with a city whose key is part of the word 'default'       *)
(***************************************************************************)
\* Ault (Colorado): its key is a substring of 'default'
ault == <<"a","u","l","t">>

OverlapCities == {delhi, ault}

OverlapFiles ==
    {RootFile(c) : c \in ComponentSet}
        \cup {CityFile(city, c) : city \in OverlapCities, c \in ComponentSet}

\* a bundle's three files: all there, none there, or one that does not load
BundleFiles == {AllOf("ok"), AllOf("absent"), But("ok", "scaler", "corrupt")}

OverlapDisk(root, d, a) ==
    [file \in OverlapFiles |->
        IF file[1] = "root" THEN root[file[3]]
        ELSE IF file[2] = delhi THEN d[file[3]]
        ELSE a[file[3]]]

TwoSpaces == <<" ", " ">>
OverlapRequests == {None, Empty, Blank, TwoSpaces, Delhi, Ault, Pune}

InitOverlap ==
    \E root, d, a \in BundleFiles :
        LET f == OverlapDisk(root, d, a)
            listed == {city \in OverlapCities :
                          \E c \in ComponentSet : f[CityFile(city, c)] # "absent"}
        IN \E order \in Perms(listed) : Boot(f, order)

NextOverlap == LoadModels \/ \E city \in OverlapRequests : Resolve(city)

SpecOverlap == InitOverlap /\ [][NextOverlap]_vars

\* C24: a call with an absent city and a call with a city made only of
\* whitespace return the same bundle, whatever the registry holds.
C24_AbsentLikeWhitespace ==
    [][(/\ request.op = "get_models"
        /\ request.city = None
        /\ request'.op = "get_models"
        /\ request'.city # <<>>
        /\ request'.city # None
        /\ Strip(request'.city) = <<>>)
          => /\ response'.raised = response.raised
             /\ response'.bundle = response.bundle]_vars

(***************************************************************************)
(* Claims about the errors of /predict (checked under Spec)                *)
(***************************************************************************)
\* C25: a /predict that answers with an error leaves the store as it was,
\* also when the failure comes after db.commit.
C25_ErrorLeavesStore ==
    [][(request'.op = "predict" /\ response'.status # 200) => store' = store]_vars

\* C26: /predict answers 'Database schema error' only when its persistence
\* step failed, never for a failure of resolution or inference.
C26_SchemaErrorOnlyFromPersistence ==
    (/\ request.op = "predict"
     /\ response.status = 500
     /\ response.detail = "Database schema error")
        => Did(trace, DbSteps)

\* C28: a DELETE /history that fails answers 500 and leaves in the store
\* exactly the records it held, none deleted.
C28_FailedClearRollsBack ==
    [][(request'.op = "clear" /\ request'.db # "none")
          => /\ response'.status = 500
             /\ response'.detail = "Delete error"
             /\ store' = store]_vars

\* a clear failed on a store of two records
C28_Witness ==
    /\ request.op = "clear"
    /\ response.status = 500
    /\ Len(store) = 2

(***************************************************************************)
(* The third-party lookups: /weather/current, /air-quality and             *)
(* /weather/forecast/7days                                                 *)
(***************************************************************************)
Endpoints == {"/weather/current", "/air-quality", "/weather/forecast/7days"}

\* what the geocoder does: it returns a result, returns none, returns one
\* without coordinates, or the request fails (urlopen or json.loads raises)
GeoOutcomes == {"found", "no_results", "malformed", "fails"}

\* what the second service does: it returns its data, returns a body
\* without them, or the request fails
RemoteOutcomes == {"data", "no_data", "fails"}

LookupCities == {Empty, Blank, Delhi, DelhiPadded, Pune}

HTTPError(status, detail) == [status |-> status, detail |-> detail]

\* get_current_weather
get_current_weather(city, geo, remote) ==
    IF city = <<>> \/ Strip(city) = <<>>
    THEN HTTPError(400, "city is required")
    ELSE IF geo = "fails" THEN HTTPError(502, "Weather API error")
    ELSE IF geo = "no_results" THEN HTTPError(404, "City not found")
    ELSE IF geo = "malformed" THEN HTTPError(502, "Weather API error")
    ELSE IF remote = "fails" THEN HTTPError(502, "Weather API error")
    ELSE IF remote = "no_data" THEN HTTPError(502, "Weather API error")
    ELSE [status |-> 200, source |-> "open-meteo"]

\* get_city_aqi
get_city_aqi(city, geo, remote) ==
    IF city = <<>> \/ Strip(city) = <<>>
    THEN HTTPError(400, "City is required")
    ELSE IF geo = "fails" THEN HTTPError(502, "AQI lookup failed")
    ELSE IF geo = "no_results" THEN HTTPError(404, "City not found")
    ELSE IF geo = "malformed" THEN HTTPError(502, "AQI lookup failed")
    ELSE IF remote = "fails" THEN HTTPError(502, "AQI lookup failed")
    ELSE IF remote = "no_data" THEN HTTPError(404, "AQI data not available")
    ELSE [status |-> 200, source |-> "open-meteo"]

\* get_7_day_forecast: its one except clause, `except Exception`, also
\* catches the HTTPException raised for a city that was not found
get_7_day_forecast(city, geo, remote) ==
    IF geo = "fails" THEN HTTPError(502, "Forecast lookup failed")
    ELSE IF geo = "no_results" THEN HTTPError(502, "Forecast lookup failed")
    ELSE IF geo = "malformed" THEN HTTPError(502, "Forecast lookup failed")
    ELSE IF remote = "fails" THEN HTTPError(502, "Forecast lookup failed")
    ELSE [status |-> 200, source |-> "open-meteo"]

\* a lookup request arrives; the outcomes are those of the two services
InitLookup ==
    /\ files = [file \in AllFiles |-> "absent"]
    /\ listing = <<>>
    /\ models = <<>>
    /\ phase = "lookup"
    /\ store = <<>>
    /\ request \in {[op |-> "received", endpoint |-> e, city |-> c, geo |-> g, remote |-> r] :
                         e \in Endpoints, c \in LookupCities, g \in GeoOutcomes,
                         r \in RemoteOutcomes}
    /\ response = NoResponse
    /\ log = <<>>
    /\ trace = <<>>
    /\ inflight = [c \in Clients |-> Idle]

Lookup(endpoint) ==
    /\ phase = "lookup"
    /\ request.op = "received"
    /\ request.endpoint = endpoint
    /\ request' = [request EXCEPT !.op = "lookup"]
    /\ response' =
          IF endpoint = "/weather/current"
          THEN get_current_weather(request.city, request.geo, request.remote)
          ELSE IF endpoint = "/air-quality"
          THEN get_city_aqi(request.city, request.geo, request.remote)
          ELSE get_7_day_forecast(request.city, request.geo, request.remote)
    /\ UNCHANGED <<inflight, files, listing, models, phase, store, log, trace>>

NextLookup == \E endpoint \in Endpoints : Lookup(endpoint)

SpecLookup == InitLookup /\ [][NextLookup]_vars

\* C30: on each of the three lookup endpoints, a city the geocoder returns
\* no result for is answered 404 'City not found', and 502 is answered only
\* when a request to a remote service failed.
C30_LookupErrorsAlike ==
    (request.op = "lookup" /\ Strip(request.city) # <<>>) =>
        /\ (request.geo = "no_results")
               => response.status = 404 /\ response.detail = "City not found"
        /\ response.status = 502
               => \/ request.geo \in {"fails", "malformed"}
                  \/ request.geo = "found" /\ request.remote \in {"fails", "no_data"}

(***************************************************************************)
(* Requests handled concurrently.  The handlers are plain functions, so    *)
(* the framework runs each request on a worker thread; every request gets  *)
(* its own session from get_db, and the sessions share one SQLite file.    *)
(* A session's SELECT sees what is committed when it runs.                 *)
(***************************************************************************)

\* the requests the clients send
ConcurrentRequests ==
    {[op |-> "predict", x |-> LowVector, db |-> "none"],
     [op |-> "predict", x |-> LowVector, db |-> "commit"],
     [op |-> "predict", x |-> JustBelow, db |-> "none"],
     [op |-> "stats", db |-> "none"],
     [op |-> "stats", db |-> "query"],
     [op |-> "history", db |-> "none"],
     [op |-> "history", db |-> "query"],
     [op |-> "clear", db |-> "none"],
     [op |-> "clear", db |-> "commit"]}

\* get_db, line 68: db = SessionLocal(), then the session is yielded to the
\* handler
get_db(req) ==
    [op |-> req.op, pc |-> IF req.op = "stats" THEN "count_total" ELSE "handler",
     session |-> "open", in |-> req, read |-> <<>>, status |-> 0]

\* a get_db whose db.close() follows the yield outside any finally: an
\* exception thrown into the generator skips it
db_close_OnSuccessOnly(entry) ==
    IF entry.status = 200 THEN Idle ELSE entry

\* get_db, lines 71-72: finally: db.close()
db_close(entry) == Idle

\* get_prediction_history: the newest rows first, at most limit of them
get_prediction_history(rows, limit, p, dbfault) ==
    IF dbfault # "none"
    THEN [status |-> 500, detail |-> "Database error"]
    ELSE [status |-> 200,
          records |-> [i \in 1..(IF limit < Len(rows) THEN limit ELSE Len(rows))
                          |-> rows[p[i]]]]

\* the /predict requests that are received and have not run yet
PendingPredicts ==
    {c \in Clients : inflight[c].op = "predict" /\ inflight[c].pc = "handler"}

InitConcurrent ==
    Boot(Disk(AllOf("ok"), AllOf("absent"), AllOf("absent")), <<delhi, new_delhi>>)

\* a request arrives: the framework calls get_db for it
Receive(c, req) ==
    /\ phase = "serving"
    /\ inflight[c] = Idle
    /\ req.op = "predict" => Len(store) + Cardinality(PendingPredicts) < MaxRecords
    /\ inflight' = [inflight EXCEPT ![c] = get_db(req)]
    /\ UNCHANGED <<files, listing, models, phase, store, request, response, log, trace>>

\* the handler of client c returns or raises: its response goes out, the
\* dependency is still to be finished
Responds(c, resp) ==
    /\ response' = resp
    /\ request' = [op |-> inflight[c].op]
    /\ inflight' = [inflight EXCEPT ![c] =
          [@ EXCEPT !.pc = "responded", !.read = <<>>, !.status = resp.status]]

\* get_statistics, lines 553-555: one count query
CountQuery(c) ==
    LET entry == inflight[c]
    IN /\ entry.pc \in {"count_total", "count_rain", "count_no_rain"}
       /\ IF entry.in.db # "none"
          THEN Responds(c, get_statistics(store, entry.in.db))
          ELSE /\ inflight' = [inflight EXCEPT ![c] =
                     IF entry.pc = "count_total"
                     THEN [entry EXCEPT !.pc = "count_rain",
                                        !.read = <<CountAll(store)>>]
                     ELSE IF entry.pc = "count_rain"
                     THEN [entry EXCEPT !.pc = "count_no_rain",
                                        !.read = Append(@, CountRain(store, "Yes"))]
                     ELSE [entry EXCEPT !.pc = "avg_temp",
                                        !.read = Append(@, CountRain(store, "No"))]]
               /\ UNCHANGED <<request, response>>
       /\ UNCHANGED <<files, listing, models, phase, store, log, trace>>

\* get_statistics, lines 558-570: the temperatures query and the body
TemperatureQuery(c) ==
    LET entry == inflight[c]
    IN /\ entry.pc = "avg_temp"
       /\ Responds(c, [status |-> 200,
                       body |-> StatisticsBody(entry.read[1], entry.read[2],
                                               entry.read[3], store)])
       /\ UNCHANGED <<files, listing, models, phase, store, log, trace>>

\* predict_weather on a worker thread, city absent: validation, get_models,
\* inference, then its one statement on the database, the INSERT it
\* commits; the clock has advanced since the last insert
PredictHandler(c) ==
    LET x == inflight[c].in.x
    IN /\ inflight[c].op = "predict" /\ inflight[c].pc = "handler"
       /\ IF ValidationErrors(x) # {}
          THEN /\ Responds(c, [status |-> 422, fields |-> ValidationErrors(x)])
               /\ store' = store
          ELSE \E r \in {get_models(models, None)} :
               IF r.raised
               THEN /\ Responds(c, ExceptionResponse(Exc("ValueError", "none")))
                    /\ store' = store
               ELSE \E inf \in {Infer(r.bundle, x)} :
                    IF inf.raised
                    THEN /\ Responds(c, ExceptionResponse(inf.exc))
                         /\ store' = store
                    ELSE \E saved \in {Persist(store,
                                               NewRow(store, None, x, inf,
                                                      MaxTimestamp(store) + 1),
                                               inflight[c].in.db)} :
                         /\ store' = saved.store
                         /\ Responds(c, IF saved.raised
                                        THEN ExceptionResponse(saved.exc)
                                        ELSE Prediction(inf))
       /\ UNCHANGED <<files, listing, models, phase, log, trace>>

\* get_prediction_history on a worker thread: one query
HistoryHandler(c) ==
    LET entry == inflight[c]
    IN /\ entry.op = "history" /\ entry.pc = "handler"
       /\ \E p \in Orderings(store) :
             Responds(c, get_prediction_history(store, 50, p, entry.in.db))
       /\ UNCHANGED <<files, listing, models, phase, store, log, trace>>

\* clear_history on a worker thread: the DELETE and its commit, or the
\* rollback
ClearHandler(c) ==
    LET entry == inflight[c]
    IN /\ entry.op = "clear" /\ entry.pc = "handler"
       /\ \E r \in {clear_history(store, entry.in.db)} :
              /\ store' = r.store
              /\ Responds(c, r.response)
       /\ UNCHANGED <<files, listing, models, phase, log, trace>>

\* the framework finishes the dependency: get_db resumes after its yield
Close(c) ==
    /\ inflight[c].pc = "responded"
    /\ inflight' = [inflight EXCEPT ![c] = db_close(inflight[c])]
    /\ UNCHANGED <<files, listing, models, phase, store, request, response, log, trace>>

\* what the worker thread of client c does next
Handle(c) ==
    \/ CountQuery(c)
    \/ TemperatureQuery(c)
    \/ PredictHandler(c)
    \/ HistoryHandler(c)
    \/ ClearHandler(c)
    \/ Close(c)

NextConcurrent ==
    \/ LoadModels
    \/ \E c \in Clients : \E req \in ConcurrentRequests : Receive(c, req)
    \/ \E c \in Clients : Handle(c)

SpecConcurrent == InitConcurrent /\ [][NextConcurrent]_vars

\* every worker thread that can take a step eventually takes one; nothing
\* makes a client send a request
SpecConcurrentFair ==
    SpecConcurrent /\ \A c \in Clients : WF_vars(Handle(c))

\* C27: every /stats response is consistent while /predict and DELETE
\* /history run concurrently: rain_predictions + no_rain_predictions equals
\* total_predictions in the body (the percentage is computed only when the
\* total read is positive, so nothing divides by zero)
C27_StatsConsistent ==
    (request.op = "stats" /\ response.status = 200) =>
        response.body.rain_predictions + response.body.no_rain_predictions
            = response.body.total_predictions

\* C29: every database session opened for a request is eventually closed,
\* whatever the handler's outcome
C29_SessionsClosed ==
    \A c \in Clients :
        (inflight[c].session = "open") ~> (inflight[c].session = "closed")

\* a request was answered with an error and no session is open any more
C29_Witness ==
    /\ request.op \in {"predict", "stats", "history", "clear"}
    /\ response.status >= 400
    /\ \A c \in Clients : inflight[c].session = "closed"

====
